---- MODULE Spec2Model ----
(***************************************************************************)
(* Model of setup.py of thautwarm/Rupy: the packaging descriptor that      *)
(* reads README.md in text mode and then makes one setuptools.setup()      *)
(* call.  A run of the script is a straight-line program; its state is the *)
(* program position, the binding of the module-level name `readme`, the    *)
(* file handle the `with` statement manages, the pending exception, and    *)
(* the calls the script has made to the outside (file open/read/close,     *)
(* find_packages, setup).  The working directory the script reads          *)
(* (README.md, the locale's default text encoding, the package tree) is    *)
(* the environment of a run.  Runs are indexed so that two independent     *)
(* runs can be compared.                                                   *)
(***************************************************************************)
EXTENDS Naturals, Sequences, FiniteSets

VARIABLES fs, pc, readme, cm, openHandles, exc, log, calls

vars == <<fs, pc, readme, cm, openHandles, exc, log, calls>>

(* Longest README.md content (in bytes) the model enumerates. *)
MaxLen == 2

(***************************************************************************)
(* The environment: README.md and the default text encoding.               *)
(***************************************************************************)

(* Bytes README.md may hold: LF, CR, and the two bytes of UTF-8 "e-acute". *)
ReadmeBytes == {10, 13, 195, 169}

ReadmeContents == UNION {[1..n -> ReadmeBytes] : n \in 0..MaxLen}

(* What the path 'README.md' names in the working directory. *)
ReadmeKinds == {"missing", "directory", "file"}

(* Path.open() is called without encoding=: the locale's default is used. *)
DefaultEncodings == {"utf-8", "latin-1"}

(* What find_packages() can find below the working directory: a           *)
(* sub-package is only found inside a found package.                       *)
PackageTrees == {{}, {"rupy"}, {"rupy", "rupy.cli"}}

Environments ==
    {[kind |-> k, bytes |-> b, encoding |-> e] :
        k \in ReadmeKinds, b \in ReadmeContents, e \in DefaultEncodings}

(* A path that is not a regular file has no content. *)
WellFormedEnv(env) == env.kind # "file" => env.bytes = <<>>

(***************************************************************************)
(* Text-mode reading: decoding, then universal-newline translation.        *)
(***************************************************************************)

(* Number of bytes of the UTF-8 sequence that starts at b[i]; 0 = invalid. *)
Utf8Width(b, i) ==
    IF b[i] < 128 THEN 1
    ELSE IF b[i] = 195 /\ i < Len(b) /\ b[i + 1] >= 128 /\ b[i + 1] < 192 THEN 2
    ELSE 0

RECURSIVE Utf8Valid(_, _)
Utf8Valid(b, i) ==
    IF i > Len(b) THEN TRUE
    ELSE IF Utf8Width(b, i) = 0 THEN FALSE
    ELSE Utf8Valid(b, i + Utf8Width(b, i))

RECURSIVE Utf8Decode(_, _)
Utf8Decode(b, i) ==
    IF i > Len(b) THEN <<>>
    ELSE IF Utf8Width(b, i) = 2
         THEN <<(b[i] - 192) * 64 + (b[i + 1] - 128)>> \o Utf8Decode(b, i + 2)
         ELSE <<b[i]>> \o Utf8Decode(b, i + 1)

(* Whether the bytes decode under the encoding (else UnicodeDecodeError). *)
Decodable(b, enc) == IF enc = "utf-8" THEN Utf8Valid(b, 1) ELSE TRUE

(* The code points of the decoded bytes; latin-1 maps byte n to U+n. *)
Decode(b, enc) == IF enc = "utf-8" THEN Utf8Decode(b, 1) ELSE b

(* newline=None on input: "\r\n" and a lone "\r" both become "\n". *)
RECURSIVE TranslateNewlines(_)
TranslateNewlines(t) ==
    IF t = <<>> THEN <<>>
    ELSE IF t[1] = 13
         THEN IF Len(t) >= 2 /\ t[2] = 10
              THEN <<10>> \o TranslateNewlines(SubSeq(t, 3, Len(t)))
              ELSE <<10>> \o TranslateNewlines(Tail(t))
         ELSE <<t[1]>> \o TranslateNewlines(Tail(t))

(* What readme.read() returns for a regular, decodable README.md. *)
ReadText(env) == TranslateNewlines(Decode(env.bytes, env.encoding))

(***************************************************************************)
(* Values the name `readme` can be bound to.                               *)
(***************************************************************************)
Unbound == [tag |-> "unbound", h |-> 0, text |-> <<>>]

FileObject(h) == [tag |-> "file", h |-> h, text |-> <<>>]

Str(t) == [tag |-> "str", h |-> 0, text |-> t]

(***************************************************************************)
(* The keyword arguments of the setup() call.  A string that setuptools    *)
(* gives structure to (an entry point, a version specifier, a requirement, *)
(* a classifier) is written as the sequence of its lexical tokens, so that *)
(* the reading of it is computed; every other string is kept whole.        *)
(***************************************************************************)

(* Mutation: the template's example command is registered as well. *)
EntryPointsWithExample ==
    [console_scripts |-> << <<"rupy", "=", "rupy.cli", ":", "runrupy">>,
                            <<"yapypy", "=", "yapypy.cmd", ":", "compiler">> >>]

(* entry_points={"console_scripts": ["rupy=rupy.cli:runrupy"]} *)
EntryPoints ==
    [console_scripts |-> << <<"rupy", "=", "rupy.cli", ":", "runrupy">> >>]

(* Mutation: the dependency is pinned. *)
InstallRequiresPinned == << <<"wisepy2", ">=", "1", ".", "0">> >>

(* install_requires=['wisepy2'] *)
InstallRequires == << <<"wisepy2">> >>

(* Mutation: the floor is 3.7 while the classifiers still name 3.6. *)
PythonRequiresBumped == <<">=", "3", ".", "7", ".", "0">>

(* python_requires='>=3.6.0' *)
PythonRequires == <<">=", "3", ".", "6", ".", "0">>

(* classifiers=[...] *)
Classifiers ==
    << <<"Programming Language", "::", "Python", "::", "3", ".", "6">>,
       <<"Programming Language", "::", "Python", "::", "3", ".", "7">>,
       <<"Programming Language", "::", "Python", "::", "Implementation",
         "::", "CPython">> >>

(* Mutation: the short description is filled from the README as well. *)
SetupArgsDescribed(readmeValue, pkgs) ==
    [name |-> "rupy",
     version |-> "0.1",
     keywords |-> "",
     description |-> readmeValue.text,
     long_description |-> readmeValue,
     long_description_content_type |-> "text/markdown",
     license |-> "mit",
     python_requires |-> PythonRequires,
     url |-> "https://github.com/thautwarm/rupy",
     author |-> "thautwarm",
     author_email |-> "twshere@outlook.com",
     packages |-> pkgs,
     entry_points |-> EntryPoints,
     install_requires |-> InstallRequires,
     platforms |-> "any",
     classifiers |-> Classifiers,
     zip_safe |-> FALSE]

(* The arguments as the call site builds them: `readme` is whatever the    *)
(* name is bound to at the call, `pkgs` what find_packages() returned.     *)
SetupArgs(readmeValue, pkgs) ==
    [name |-> "rupy",
     version |-> "0.1",
     keywords |-> "",
     description |-> "",
     long_description |-> readmeValue,
     long_description_content_type |-> "text/markdown",
     license |-> "mit",
     python_requires |-> PythonRequires,
     url |-> "https://github.com/thautwarm/rupy",
     author |-> "thautwarm",
     author_email |-> "twshere@outlook.com",
     packages |-> pkgs,
     entry_points |-> EntryPoints,
     install_requires |-> InstallRequires,
     platforms |-> "any",
     classifiers |-> Classifiers,
     zip_safe |-> FALSE]

(***************************************************************************)
(* How the packaging tool reads the structured strings.                    *)
(***************************************************************************)

(* Position of the first token equal to sep, or Len(t) + 1. *)
RECURSIVE IndexOf(_, _, _)
IndexOf(t, sep, i) ==
    IF i > Len(t) THEN i
    ELSE IF t[i] = sep THEN i
    ELSE IndexOf(t, sep, i + 1)

(* The segments of t between the occurrences of sep. *)
RECURSIVE SplitOn(_, _)
SplitOn(t, sep) ==
    IF IndexOf(t, sep, 1) > Len(t) THEN <<t>>
    ELSE <<SubSeq(t, 1, IndexOf(t, sep, 1) - 1)>>
         \o SplitOn(SubSeq(t, IndexOf(t, sep, 1) + 1, Len(t)), sep)

(* "name=module:attr" *)
ParseEntryPoint(t) ==
    [name |-> SubSeq(t, 1, IndexOf(t, "=", 1) - 1),
     module |-> SubSeq(t, IndexOf(t, "=", 1) + 1, IndexOf(t, ":", 1) - 1),
     attr |-> SubSeq(t, IndexOf(t, ":", 1) + 1, Len(t))]

(* The commands of the console_scripts group, if the group is declared. *)
ConsoleScripts(args) ==
    IF "console_scripts" \in DOMAIN args.entry_points
    THEN {ParseEntryPoint(args.entry_points.console_scripts[i]) :
              i \in DOMAIN args.entry_points.console_scripts}
    ELSE {}

(* A requirement: a distribution name followed by its version specifier. *)
ParseRequirement(t) == [name |-> t[1], specifier |-> Tail(t)]

Requirements(args) ==
    {ParseRequirement(args.install_requires[i]) :
         i \in DOMAIN args.install_requires}

Digits == {"0", "1", "2", "3", "4", "5", "6", "7", "8", "9"}

DigitValue(d) == CHOOSE n \in 0..9 :
    d = <<"0", "1", "2", "3", "4", "5", "6", "7", "8", "9">>[n + 1]

(* "3.6.0" -> <<3, 6, 0>> *)
ParseVersion(t) ==
    [i \in 1..Len(SplitOn(t, ".")) |-> DigitValue(SplitOn(t, ".")[i][1])]

(* The i-th release number, missing ones read as 0 (3.6 is 3.6.0). *)
Release(v, i) == IF i <= Len(v) THEN v[i] ELSE 0

(* v >= w in release order. *)
VersionGE(v, w) ==
    \/ \A i \in 1..3 : Release(v, i) = Release(w, i)
    \/ \E i \in 1..3 :
          /\ Release(v, i) > Release(w, i)
          /\ \A j \in 1..(i - 1) : Release(v, j) = Release(w, j)

(* Whether version v meets the specifier (an operator and a version). *)
Satisfies(v, spec) ==
    /\ spec[1] = ">="
    /\ VersionGE(v, ParseVersion(Tail(spec)))

IsVersion(t) == t # <<>> /\ \A i \in DOMAIN t : t[i] \in Digits \cup {"."}

(* The Python versions the classifiers name. *)
ClassifierVersions(args) ==
    {ParseVersion(SplitOn(args.classifiers[i], "::")[3]) :
        i \in {j \in DOMAIN args.classifiers :
                  /\ Len(SplitOn(args.classifiers[j], "::")) = 3
                  /\ SplitOn(args.classifiers[j], "::")[1] = <<"Programming Language">>
                  /\ SplitOn(args.classifiers[j], "::")[2] = <<"Python">>
                  /\ IsVersion(SplitOn(args.classifiers[j], "::")[3])}}

(***************************************************************************)
(* The script, one action per statement.  Every variable is a function of  *)
(* the run.                                                                *)
(***************************************************************************)

(* The state before the first statement of each run in R. *)
InitRuns(R) ==
    /\ fs \in [R -> {env \in Environments : WellFormedEnv(env)}]
    /\ pc = [r \in R |-> "import"]
    /\ readme = [r \in R |-> Unbound]
    /\ cm = [r \in R |-> 0]
    /\ openHandles = [r \in R |-> {}]
    /\ exc = [r \in R |-> "none"]
    /\ log = [r \in R |-> <<>>]
    /\ calls = [r \in R |-> <<>>]

(* from setuptools import setup, find_packages; from pathlib import Path *)
ImportModules(r) ==
    /\ pc[r] = "import"
    /\ pc' = [pc EXCEPT ![r] = "open"]
    /\ UNCHANGED <<fs, readme, cm, openHandles, exc, log, calls>>

(* What Path('README.md').open() raises, "none" if it returns a handle. *)
OpenError(env) ==
    IF env.kind = "missing" THEN "FileNotFoundError"
    ELSE IF env.kind = "directory" THEN "IsADirectoryError"
    ELSE "none"

(* with Path('README.md').open() as readme:                                *)
(* the handle is kept by the with statement and bound to the name; an      *)
(* exception of open() is not handled and ends the script.                 *)
OpenReadme(r) ==
    /\ pc[r] = "open"
    /\ IF OpenError(fs[r]) = "none"
       THEN /\ openHandles' = [openHandles EXCEPT ![r] = @ \cup {1}]
            /\ cm' = [cm EXCEPT ![r] = 1]
            /\ readme' = [readme EXCEPT ![r] = FileObject(1)]
            /\ log' = [log EXCEPT ![r] = Append(@, "open")]
            /\ pc' = [pc EXCEPT ![r] = "read"]
            /\ UNCHANGED exc
       ELSE /\ exc' = [exc EXCEPT ![r] = OpenError(fs[r])]
            /\ pc' = [pc EXCEPT ![r] = "failed"]
            /\ UNCHANGED <<openHandles, cm, readme, log>>
    /\ UNCHANGED <<fs, calls>>

(* The text up to and including its first "\n". *)
FirstLine(t) == SubSeq(t, 1, IF IndexOf(t, 10, 1) > Len(t) THEN Len(t) ELSE IndexOf(t, 10, 1))

(* Mutation: readme = readme.readline(), only the first line is kept. *)
ReadReadmeFirstLine(r) ==
    /\ pc[r] = "read"
    /\ readme[r].tag = "file"
    /\ readme[r].h \in openHandles[r]
    /\ IF Decodable(fs[r].bytes, fs[r].encoding)
       THEN /\ readme' = [readme EXCEPT ![r] = Str(FirstLine(ReadText(fs[r])))]
            /\ log' = [log EXCEPT ![r] = Append(@, "read")]
            /\ UNCHANGED exc
       ELSE /\ exc' = [exc EXCEPT ![r] = "UnicodeDecodeError"]
            /\ log' = [log EXCEPT ![r] = Append(@, "read raised")]
            /\ UNCHANGED readme
    /\ pc' = [pc EXCEPT ![r] = "exit"]
    /\ UNCHANGED <<fs, cm, openHandles, calls>>

(* readme = readme.read(): the name is rebound to the text; a decoding     *)
(* error leaves the name bound to the handle and leaves the with body.     *)
ReadReadme(r) ==
    /\ pc[r] = "read"
    /\ readme[r].tag = "file"
    /\ readme[r].h \in openHandles[r]
    /\ IF Decodable(fs[r].bytes, fs[r].encoding)
       THEN /\ readme' = [readme EXCEPT ![r] = Str(ReadText(fs[r]))]
            /\ log' = [log EXCEPT ![r] = Append(@, "read")]
            /\ UNCHANGED exc
       ELSE /\ exc' = [exc EXCEPT ![r] = "UnicodeDecodeError"]
            /\ log' = [log EXCEPT ![r] = Append(@, "read raised")]
            /\ UNCHANGED readme
    /\ pc' = [pc EXCEPT ![r] = "exit"]
    /\ UNCHANGED <<fs, cm, openHandles, calls>>

(* Mutation: the block closes whatever the name `readme` is bound to, so   *)
(* the handle stays open once the name has been rebound to the text.       *)
WithExitByName(r) ==
    /\ pc[r] = "exit"
    /\ openHandles' = [openHandles EXCEPT ![r] =
                          IF readme[r].tag = "file" THEN @ \ {readme[r].h} ELSE @]
    /\ log' = [log EXCEPT ![r] = Append(@, "close")]
    /\ pc' = [pc EXCEPT ![r] = IF exc[r] = "none" THEN "setup" ELSE "failed"]
    /\ UNCHANGED <<fs, readme, cm, exc, calls>>

(* Mutation: the context manager suppresses the exception of the body. *)
WithExitSuppressing(r) ==
    /\ pc[r] = "exit"
    /\ openHandles' = [openHandles EXCEPT ![r] = @ \ {cm[r]}]
    /\ log' = [log EXCEPT ![r] = Append(@, "close")]
    /\ pc' = [pc EXCEPT ![r] = "setup"]
    /\ UNCHANGED <<fs, readme, cm, exc, calls>>

(* Leaving the with block: __exit__ of the object the with statement kept  *)
(* closes the handle, whatever the name `readme` is bound to by now, and   *)
(* does not suppress a pending exception.                                  *)
WithExit(r) ==
    /\ pc[r] = "exit"
    /\ openHandles' = [openHandles EXCEPT ![r] = @ \ {cm[r]}]
    /\ log' = [log EXCEPT ![r] = Append(@, "close")]
    /\ pc' = [pc EXCEPT ![r] = IF exc[r] = "none" THEN "setup" ELSE "failed"]
    /\ UNCHANGED <<fs, readme, cm, exc, calls>>

(* Mutation: the registration call is made twice. *)
CallSetupTwice(r) ==
    /\ pc[r] = "setup"
    /\ \E pkgs \in PackageTrees :
          calls' = [calls EXCEPT ![r] =
                       @ \o <<SetupArgs(readme[r], pkgs), SetupArgs(readme[r], pkgs)>>]
    /\ log' = [log EXCEPT ![r] = @ \o <<"setup", "setup">>]
    /\ pc' = [pc EXCEPT ![r] = "done"]
    /\ UNCHANGED <<fs, readme, cm, openHandles, exc>>

(* setup(...): the arguments are evaluated (find_packages() reads the      *)
(* package tree of the working directory), then the call is made.          *)
CallSetup(r) ==
    /\ pc[r] = "setup"
    /\ \E pkgs \in PackageTrees :
          calls' = [calls EXCEPT ![r] = Append(@, SetupArgs(readme[r], pkgs))]
    /\ log' = [log EXCEPT ![r] = Append(@, "setup")]
    /\ pc' = [pc EXCEPT ![r] = "done"]
    /\ UNCHANGED <<fs, readme, cm, openHandles, exc>>

Next ==
    \/ \E r \in DOMAIN pc : ImportModules(r)
    \/ \E r \in DOMAIN pc : OpenReadme(r)
    \/ \E r \in DOMAIN pc : ReadReadme(r)
    \/ \E r \in DOMAIN pc : WithExit(r)
    \/ \E r \in DOMAIN pc : CallSetup(r)

(* One run of the script. *)
Init == InitRuns({1})

Spec == Init /\ [][Next]_vars

(* Two independent runs of the script, each in its own environment. *)
InitPair == InitRuns({1, 2})

SpecPair == InitPair /\ [][Next]_vars

(***************************************************************************)
(* Properties.                                                             *)
(***************************************************************************)

(* Every setup() call made so far, in any run. *)
AllCalls == UNION {{calls[r][i] : i \in DOMAIN calls[r]} : r \in DOMAIN pc}

(* A run in which setup() has been called. *)
SetupCalled(r) == calls[r] # <<>>

(* How many entries of the sequence s are in the set S. *)
Count(s, S) == Cardinality({i \in DOMAIN s : s[i] \in S})

(* C1: every setup() call declares exactly one console script: entry_points *)
(* has the console_scripts group only, the group has one entry, and that    *)
(* entry maps the command name rupy to the function runrupy of rupy.cli.    *)
C1_OneConsoleScript ==
    \A args \in AllCalls :
        /\ DOMAIN args.entry_points = {"console_scripts"}
        /\ Len(args.entry_points.console_scripts) = 1
        /\ ConsoleScripts(args) =
               {[name |-> <<"rupy">>, module |-> <<"rupy.cli">>, attr |-> <<"runrupy">>]}

C1_Witness == \E r \in DOMAIN pc : pc[r] = "done" /\ Len(calls[r]) = 1

(* C4: every setup() call declares python_requires as ">=" 3.6.0, the       *)
(* classifiers name the Python versions 3.6 and 3.7, and each of them meets *)
(* the declared constraint.                                                 *)
C4_PythonRequires ==
    \A args \in AllCalls :
        /\ args.python_requires[1] = ">="
        /\ ParseVersion(Tail(args.python_requires)) = <<3, 6, 0>>
        /\ ClassifierVersions(args) = {<<3, 6>>, <<3, 7>>}
        /\ \A v \in ClassifierVersions(args) : Satisfies(v, args.python_requires)

C4_Witness ==
    \E args \in AllCalls :
        \E v \in ClassifierVersions(args) :
            v = <<3, 6>> /\ Satisfies(v, args.python_requires)

(* C5: every setup() call declares exactly one install requirement, the     *)
(* distribution wisepy2 with an empty version specifier.                    *)
C5_OneDependency ==
    \A args \in AllCalls :
        /\ Len(args.install_requires) = 1
        /\ Requirements(args) = {[name |-> "wisepy2", specifier |-> <<>>]}

C5_Witness ==
    \E args \in AllCalls : \E q \in Requirements(args) : q.name = "wisepy2"

(* README.md can be opened and read as text in the run's environment. *)
Readable(env) == env.kind = "file" /\ Decodable(env.bytes, env.encoding)

(* The statement run r is at can be executed. *)
CanStep(r) ==
    ENABLED (ImportModules(r) \/ OpenReadme(r) \/ ReadReadme(r)
             \/ WithExit(r) \/ CallSetup(r))

(* C2 as stated: a missing README.md is the only failure; whenever          *)
(* README.md is present as a file, the script does not fail.                *)
C2_OnlyMissingFails ==
    \A r \in DOMAIN pc :
        /\ fs[r].kind = "file" => pc[r] # "failed" /\ exc[r] = "none"
        /\ exc[r] # "none" => calls[r] = <<>>

(* C2, amended: opening or reading README.md raises exactly when the path   *)
(* is missing, is a directory, or holds bytes that do not decode under the  *)
(* default encoding; once it has raised, setup() is never called and the    *)
(* script ends failed; when README.md is a regular file that decodes, no    *)
(* exception is raised, the script never ends failed, and it keeps stepping *)
(* until setup() has been called.                                           *)
C2_ReadFailureModes ==
    \A r \in DOMAIN pc :
        /\ exc[r] # "none" => ~Readable(fs[r]) /\ calls[r] = <<>>
        /\ exc[r] = "FileNotFoundError" => fs[r].kind = "missing"
        /\ pc[r] = "failed" => exc[r] # "none"
        /\ ~Readable(fs[r]) => pc[r] \notin {"setup", "done"} /\ calls[r] = <<>>
        /\ Readable(fs[r]) => exc[r] = "none" /\ pc[r] # "failed"
        /\ pc[r] \notin {"done", "failed"} => CanStep(r)
        /\ pc[r] = "done" => Len(calls[r]) = 1

(* A present README.md whose read failed, and no registration was made. *)
C2_Witness ==
    \E r \in DOMAIN pc :
        /\ pc[r] = "failed"
        /\ fs[r].kind = "file"
        /\ exc[r] = "UnicodeDecodeError"
        /\ calls[r] = <<>>

(* C3: in every run at most one read of README.md is performed and at most  *)
(* one setup() call is made, no statement is executed twice, and a setup()  *)
(* call comes only after the read has returned.                             *)
C3_OnceInOrder ==
    \A r \in DOMAIN pc :
        /\ Count(log[r], {"open"}) <= 1
        /\ Count(log[r], {"read", "read raised"}) <= 1
        /\ Count(log[r], {"setup"}) <= 1
        /\ Len(calls[r]) = Count(log[r], {"setup"})
        /\ \A i \in DOMAIN log[r] :
              log[r][i] = "setup" => \E j \in 1..(i - 1) : log[r][j] = "read"

C3_Witness ==
    \E r \in DOMAIN pc : log[r] = <<"open", "read", "close", "setup">>

(* C7: whenever setup() is called, long_description is the whole text that  *)
(* read() returned for README.md (the decoded bytes with newlines           *)
(* translated), and long_description_content_type is "text/markdown".       *)
C7_LongDescription ==
    \A r \in DOMAIN pc :
        \A i \in DOMAIN calls[r] :
            /\ calls[r][i].long_description = Str(ReadText(fs[r]))
            /\ calls[r][i].long_description_content_type = "text/markdown"

(* A call whose README.md has more than one line. *)
C7_Witness ==
    \E r \in DOMAIN pc :
        /\ SetupCalled(r)
        /\ Len(ReadText(fs[r])) >= 2
        /\ FirstLine(ReadText(fs[r])) # ReadText(fs[r])

(* C8: from the moment the setup() call starts, no file handle opened by    *)
(* the script is open, although the name `readme` no longer refers to the   *)
(* handle.                                                                  *)
C8_ClosedBeforeSetup ==
    \A r \in DOMAIN pc :
        (pc[r] \in {"setup", "done"} \/ SetupCalled(r)) => openHandles[r] = {}

(* About to call setup(): the handle was opened, the name is the text. *)
C8_Witness ==
    \E r \in DOMAIN pc :
        /\ pc[r] = "setup"
        /\ log[r] = <<"open", "read", "close">>
        /\ readme[r].tag = "str"
        /\ openHandles[r] = {}

(* The arguments of a call without long_description. *)
WithoutLongDescription(args) == [args EXCEPT !.long_description = Unbound]

(* The arguments of a call without long_description and packages. *)
WithoutReadInputs(args) ==
    [args EXCEPT !.long_description = Unbound, !.packages = {}]

(* C6 as stated: any two setup() calls, of the same or of different runs,   *)
(* agree on every argument other than long_description.                     *)
C6_AllButLongDescriptionConstant ==
    \A a \in AllCalls : \A b \in AllCalls :
        WithoutLongDescription(a) = WithoutLongDescription(b)

(* C6, amended: any two setup() calls agree on every argument other than    *)
(* long_description and packages, whatever README.md holds and whatever     *)
(* package tree find_packages() finds; each run makes at most one call.     *)
C6_StaticArguments ==
    /\ \A a \in AllCalls : \A b \in AllCalls :
          WithoutReadInputs(a) = WithoutReadInputs(b)
    /\ \A r \in DOMAIN pc : Len(calls[r]) <= 1

(* Two runs that called setup() with different README texts and packages. *)
C6_Witness ==
    \E a \in AllCalls : \E b \in AllCalls :
        /\ a.long_description # b.long_description
        /\ a.packages # b.packages

====
